---------------------------- MODULE Spec2Model ----------------------------
(***************************************************************************)
(* Model of the ogd_web_analytics_etl DAG (dags/ogd/ogd_web_analytics_etl  *)
(* .py) and of its helpers (dags/ogd/ogd_web_analytics_utilities.py).      *)
(*                                                                         *)
(* Time is counted in whole hours since 00:00 of day 0 of the modelled     *)
(* calendar; a date is a day ordinal; a '%Y-%m-%d' string is the triple    *)
(* <<year, month, day>> that strftime writes and strptime reads.           *)
(***************************************************************************)
EXTENDS Integers, Sequences, FiniteSets, TLC

\* ------------------------------------------------------------------ bounds
NumRuns == 2        \* DAG runs that may overlap (scheduled + manual trigger)
MaxTicks == 1       \* how many days the worker clock advances in a behaviour
MaxDay == 9         \* last day ordinal of the modelled calendar

\* ------------------------------------------------------- program constants
HoursPerDay == 24   \* timedelta(days=1), in the model's time unit
CET == 1            \* UTC offset of Europe/Berlin on the modelled (winter) days

Runs == 1..NumRuns
Branches == {"user", "datasets"}

\* ---------------------------------------------------------------- calendar
\* Day 0 of the modelled calendar is 2023-12-29, so that the dates of the
\* documented scenario (2023-12-31 .. 2024-01-05) lie inside it and a year
\* and month boundary is crossed.
EpochDate == <<2023, 12, 29>>

IsLeap(y) == (y % 4 = 0 /\ y % 100 # 0) \/ y % 400 = 0

DaysInMonth(y, m) ==
    IF m = 2 THEN (IF IsLeap(y) THEN 29 ELSE 28)
    ELSE IF m \in {4, 6, 9, 11} THEN 30 ELSE 31

NextDate(s) ==
    IF s[3] < DaysInMonth(s[1], s[2]) THEN <<s[1], s[2], s[3] + 1>>
    ELSE IF s[2] < 12 THEN <<s[1], s[2] + 1, 1>>
    ELSE <<s[1] + 1, 1, 1>>

RECURSIVE DateOfOrdinal(_)
DateOfOrdinal(d) == IF d = 0 THEN EpochDate ELSE NextDate(DateOfOrdinal(d - 1))

\* The calendar as a table: day ordinal -> <<year, month, day>>.
Calendar == [d \in 0..MaxDay |-> DateOfOrdinal(d)]

\* datetime.date(): the day a time of day falls on (floor division).
date(t) == t \div HoursPerDay

\* datetime.strftime('%Y-%m-%d'): the time of day is dropped.
strftime(t) == Calendar[date(t)]

\* datetime.strptime(s, '%Y-%m-%d'): midnight of the day the string names.
strptime(s) == (CHOOSE d \in DOMAIN Calendar : Calendar[d] = s) * HoursPerDay

\* timedelta(days=n)
timedelta(n) == n * HoursPerDay

\* Hour h of day ordinal d.
At(d, h) == d * HoursPerDay + h

\* ------------------------------------------------------------ pure helpers
\* A timestamp string of the API is modelled by what strptime can read from
\* it: its wall-clock fields (wall, in hours), its fractional seconds
\* (micro; 0 when the string has none), its UTC offset (off, in hours) and
\* its shape: "frac"  = '%Y-%m-%dT%H:%M:%S.%f%z',
\*            "plain" = '%Y-%m-%dT%H:%M:%S%z', "bad" = anything else.
\* An aware datetime is [wall, micro, off]; a naive one is its wall hours.

\* x.replace(tzinfo=tz): the wall-clock fields stay, the offset is replaced.
replace_tzinfo(dt, off) == [dt EXCEPT !.off = off]

\* x.replace(microsecond=us)
replace_microsecond(dt, us) == [dt EXCEPT !.micro = us]

\* x.astimezone(Europe/Berlin): same instant, Berlin wall-clock fields.
astimezone_berlin(dt) == [dt EXCEPT !.wall = dt.wall - dt.off + CET, !.off = CET]

\* Variant: a string of neither format is read leniently instead of raising.
to_timestamp_coerce(x) == <<"ok", x.wall + CET>>

\* to_timestamp(x): <<"ok", naive local hours>> or <<"ValueError">>.
to_timestamp(x) ==
    IF x.form \notin {"frac", "plain"} THEN <<"ValueError">>
    ELSE LET parsed == [wall |-> x.wall,
                        micro |-> IF x.form = "frac" THEN x.micro ELSE 0,
                        off |-> x.off]
             whole == replace_microsecond(parsed, 0)
             local == astimezone_berlin(replace_tzinfo(whole, 0))
         IN  <<"ok", local.wall>>

\* extract_dataset(list): list[0], or None when list[0] raises.  A value is
\* modelled with its Python kind; indexing works on a non-empty list (first
\* element), a non-empty string (first character) and a mapping with key 0.
PyNone == [kind |-> "none"]

extract_dataset(v) ==
    CASE v.kind = "list" /\ Len(v.items) > 0 -> v.items[1]
      [] v.kind = "str" /\ Len(v.chars) > 0 -> [kind |-> "str", chars |-> <<v.chars[1]>>]
      [] v.kind = "dict" /\ 0 \in DOMAIN v.map -> v.map[0]
      [] OTHER -> PyNone

\* Variant: the comparison of line 45 with <= for <.
is_user_data_up_to_date_inclusive(x) ==
    date(strptime(x[1])) <= date(strptime(x[3]) - timedelta(1))

\* is_user_data_up_to_date, on the XCom triple of get_update_dates.
is_user_data_up_to_date(x) ==
    date(strptime(x[1])) < date(strptime(x[3]) - timedelta(1))

\* is_datasets_data_up_to_date, on the XCom triple of get_update_dates.
is_datasets_data_up_to_date(x) ==
    date(strptime(x[2])) < date(strptime(x[3]))

\* Sequence helpers.
Max(S) == CHOOSE m \in S : \A n \in S : n <= m

\* ------------------------------------------------------------------- data
\* What the two monitoring endpoints hold.  A user-action record carries an
\* id (standing for its other 15 columns), its timestamp string and its
\* dataset_id value.
OneId(name) == [kind |-> "list", items |-> <<[kind |-> "str", chars |-> <<name>>]>>]

Stamp(d, h, form, micro, off) ==
    [wall |-> At(d, h), micro |-> micro, off |-> off, form |-> form]

\* The documented scenario: one record a day, 2023-12-31 .. 2024-01-05.
FeedScenario ==
    << [id |-> 1, timestamp |-> Stamp(2, 10, "plain", 0, 0), dataset_id |-> OneId("a")],
       [id |-> 2, timestamp |-> Stamp(3, 10, "frac", 5, 0), dataset_id |-> OneId("a")],
       [id |-> 3, timestamp |-> Stamp(4, 10, "plain", 0, 0), dataset_id |-> OneId("b")],
       [id |-> 4, timestamp |-> Stamp(5, 10, "frac", 5, 0), dataset_id |-> OneId("a")],
       [id |-> 5, timestamp |-> Stamp(6, 10, "plain", 0, 0), dataset_id |-> OneId("b")],
       [id |-> 6, timestamp |-> Stamp(7, 10, "frac", 5, 0), dataset_id |-> OneId("a")] >>

\* Records around midnight and with a non-zero offset, odd dataset_id
\* values, and no record for 2024-01-04 local time.
FeedEdge ==
    << [id |-> 1, timestamp |-> Stamp(3, 23, "plain", 0, 0),
        dataset_id |-> [kind |-> "list", items |-> <<>>]],
       [id |-> 2, timestamp |-> Stamp(5, 0, "frac", 7, 2), dataset_id |-> PyNone],
       [id |-> 3, timestamp |-> Stamp(6, 23, "plain", 0, 0), dataset_id |-> OneId("a")] >>

\* A record whose timestamp matches neither format, among valid ones.
FeedBad ==
    << [id |-> 1, timestamp |-> Stamp(4, 10, "plain", 0, 0), dataset_id |-> OneId("a")],
       [id |-> 2, timestamp |-> Stamp(5, 10, "bad", 0, 0), dataset_id |-> OneId("a")],
       [id |-> 3, timestamp |-> Stamp(6, 10, "frac", 5, 0), dataset_id |-> OneId("b")] >>

Feeds == {FeedScenario, FeedEdge, FeedBad}

\* The dataset catalogue of ods-datasets-monitoring.
Catalogue == <<"a", "b">>

\* Rows already in the store when the first run starts; xmin names the
\* transaction that inserted a row (0: before the modelled runs).
OldUserRow(d, h) ==
    [id |-> 0, timestamp |-> At(d, h), dataset_id |-> PyNone, xmin |-> 0]

OldDatasetRow(d, h) == [dataset_id |-> "a", timestamp |-> At(d, h), xmin |-> 0]

InitUserTables == {<<>>, <<OldUserRow(3, 12)>>, <<OldUserRow(6, 12)>>}

InitDatasetTables == {<<>>, <<OldDatasetRow(6, 5)>>, <<OldDatasetRow(7, 1)>>}

\* 2024-01-05 05:00, the time '0 5 * * *' schedules the run at.
InitClock == At(7, 5)

\* The table each branch loads.
\* Variant: both update tasks name the user-actions table.
TableOf_same(b) == "ogd_analytics.user_actions"

TableOf(b) == IF b = "user" THEN "ogd_analytics.user_actions" ELSE "ogd_analytics.datasets"

Tables == {TableOf(b) : b \in Branches}

\* ------------------------------------------------------------------ state
VARIABLES
    clock,      \* datetime.now() of the worker, in hours
    ticks,      \* how often the clock has advanced
    upstream,   \* the records ods-api-monitoring holds
    table,      \* table name -> committed rows, in insertion order
    txn,        \* run -> branch -> rows inserted by the open transaction
    locks,      \* table locks held: [run, table, mode]
    pc,         \* run -> task ("dates", "user", "datasets") -> position
    xcom,       \* run -> what get_update_dates has computed / returned
    gate,       \* run -> branch -> return value of the ShortCircuit callable
    df,         \* run -> branch -> the DataFrame of the update task
    err,        \* run -> task -> the exception that ended the task ("" if none)
    http        \* the GET requests issued: [run, branch, params]

vars == <<clock, ticks, upstream, table, txn, locks, pc, xcom, gate, df, err, http>>

Tasks == {"dates"} \cup Branches

\* No run has been triggered yet.
NoRuns ==
    /\ ticks = 0
    /\ txn = [r \in Runs |-> [b \in Branches |-> <<>>]]
    /\ locks = {}
    /\ pc = [r \in Runs |-> [k \in Tasks |-> IF k = "dates" THEN "idle" ELSE "none"]]
    /\ xcom = [r \in Runs |-> <<>>]
    /\ gate = [r \in Runs |-> [b \in Branches |-> "None"]]
    /\ df = [r \in Runs |-> [b \in Branches |-> <<>>]]
    /\ err = [r \in Runs |-> [k \in Tasks |-> ""]]
    /\ http = {}

Init ==
    /\ clock = InitClock
    /\ upstream \in Feeds
    /\ \E u \in InitUserTables, d \in InitDatasetTables :
         table = [t \in Tables |-> IF t = TableOf("user") THEN u ELSE d]
    /\ NoRuns

\* ------------------------------------------------------------------ store
\* PostgreSQL's table-level lock modes the program uses (SELECT: ACCESS
\* SHARE, INSERT: ROW EXCLUSIVE, LOCK TABLE: the mode it names), with the
\* modes next to them in the conflict table.
LockConflicts ==
    { <<"ACCESS SHARE", "ACCESS EXCLUSIVE">>,
      <<"ROW EXCLUSIVE", "SHARE">>,
      <<"ROW EXCLUSIVE", "SHARE ROW EXCLUSIVE">>,
      <<"ROW EXCLUSIVE", "ACCESS EXCLUSIVE">>,
      <<"SHARE", "SHARE ROW EXCLUSIVE">>,
      <<"SHARE", "ACCESS EXCLUSIVE">>,
      <<"SHARE ROW EXCLUSIVE", "SHARE ROW EXCLUSIVE">>,
      <<"SHARE ROW EXCLUSIVE", "ACCESS EXCLUSIVE">>,
      <<"ACCESS EXCLUSIVE", "ACCESS EXCLUSIVE">> }

Conflicts(m1, m2) == <<m1, m2>> \in LockConflicts \/ <<m2, m1>> \in LockConflicts

\* A transaction of run r can take mode m on table t at once.
CanLock(r, t, m) ==
    \A l \in locks : (l.table = t /\ l.run # r) => ~Conflicts(l.mode, m)

\* Variant: LOCK TABLE ... IN SHARE MODE, which does not conflict with itself.
LoadLockMode_share == "SHARE"

\* LOCK TABLE {table} IN SHARE ROW EXCLUSIVE MODE
LoadLockMode == "SHARE ROW EXCLUSIVE"

\* Variant: a connection with autocommit switched on.
autocommit_on == TRUE

\* psycopg2 connections do not autocommit unless told to.
autocommit == FALSE

\* cur.fetchone() of 'SELECT field FROM table ORDER BY field DESC LIMIT 1':
\* the row tuple, or the empty tuple for None (no row).
fetchone(t) ==
    IF table[t] = <<>> THEN <<>>
    ELSE <<Max({table[t][i].timestamp : i \in DOMAIN table[t]})>>

\* Variant: a load that replaces the table's content (DELETE, then INSERT).
query_replace(rows, batch) == batch

\* 'INSERT INTO {table}({cols}) VALUES (...)': the rows of the batch come
\* after the rows the table holds, which stay as they are.
query(rows, batch) == rows \o batch

\* Transaction end (commit or rollback) releases the transaction's locks.
Release(r, t) == {l \in locks : ~(l.run = r /\ l.table = t)}

\* ---------------------------------------------------------------- actions
\* The task's exception ends it; its downstream tasks do not run.
Raise(r, k, e) ==
    /\ err' = [err EXCEPT ![r][k] = e]
    /\ pc' = [pc EXCEPT ![r] =
                IF k = "dates"
                THEN [j \in Tasks |-> IF j = "dates" THEN "Failed" ELSE "upstream_failed"]
                ELSE [pc[r] EXCEPT ![k] = "Failed"]]

\* The scheduler (or a manual trigger) starts DAG run r.
Trigger(r) ==
    /\ pc[r]["dates"] = "idle"
    /\ \A q \in Runs : q < r => pc[q]["dates"] # "idle"
    /\ pc' = [pc EXCEPT ![r]["dates"] = "latest_user_date"]
    /\ UNCHANGED <<clock, ticks, upstream, table, txn, locks, xcom, gate, df, err, http>>

\* datetime.now() moves on, to the same hour of the next day.
Tick ==
    /\ ticks < MaxTicks
    /\ clock' = clock + timedelta(1)
    /\ ticks' = ticks + 1
    /\ UNCHANGED <<upstream, table, txn, locks, pc, xcom, gate, df, err, http>>

\* get_update_dates, line 30 and line 31: one watermark read each.
get_update_dates_read(r, b, here, next) ==
    /\ pc[r]["dates"] = here
    /\ CanLock(r, TableOf(b), "ACCESS SHARE")
    /\ LET row == fetchone(TableOf(b)) IN
         IF row = <<>>
         THEN Raise(r, "dates", "TypeError") /\ UNCHANGED xcom
         ELSE /\ xcom' = [xcom EXCEPT ![r] = Append(@, strftime(row[1]))]
              /\ pc' = [pc EXCEPT ![r]["dates"] = next]
              /\ UNCHANGED err
    /\ UNCHANGED <<clock, ticks, upstream, table, txn, locks, gate, df, http>>

get_update_dates_user(r) ==
    get_update_dates_read(r, "user", "latest_user_date", "latest_datasets_date")

get_update_dates_datasets(r) ==
    get_update_dates_read(r, "datasets", "latest_datasets_date", "today")

\* get_update_dates, line 32 and the return: the XCom triple is pushed and
\* the two ShortCircuit tasks become runnable.
get_update_dates_today(r) ==
    /\ pc[r]["dates"] = "today"
    /\ xcom' = [xcom EXCEPT ![r] = Append(@, strftime(clock))]
    /\ pc' = [pc EXCEPT ![r] = [k \in Tasks |-> IF k = "dates" THEN "success" ELSE "gate"]]
    /\ UNCHANGED <<clock, ticks, upstream, table, txn, locks, gate, df, err, http>>

\* The callable of each ShortCircuitOperator.
Callable(b, x) ==
    IF b = "user" THEN is_user_data_up_to_date(x) ELSE is_datasets_data_up_to_date(x)

\* Variant: a plain PythonOperator, whose return value skips nothing.
ShortCircuit_never(result) == "download"

\* ShortCircuitOperator: a false return value skips the downstream task.
ShortCircuit(result) == IF result THEN "download" ELSE "Skipped"

is_up_to_date_task(r, b) ==
    /\ pc[r][b] = "gate"
    /\ LET result == Callable(b, xcom[r]) IN
         /\ gate' = [gate EXCEPT ![r][b] = IF result THEN "True" ELSE "False"]
         /\ pc' = [pc EXCEPT ![r][b] = ShortCircuit(result)]
    /\ UNCHANGED <<clock, ticks, upstream, table, txn, locks, xcom, df, err, http>>

\* download_data: the GET request issued, with the records it answered
\* (none when requests.get raised).
Request(r, b, params, response) ==
    http \cup {[run |-> r, branch |-> b, params |-> params, response |-> response]}

\* The date the API files a record under (timezone=Europe/Berlin).
ApiDate(rec) == date(rec.timestamp.wall - rec.timestamp.off + CET)

\* What the API may answer to qv1 = timestamp:[start TO end]: the records of
\* that inclusive range, or (its time selection is not trusted) all it holds.
Responses(start, end) ==
    { SelectSeq(upstream, LAMBDA rec :
          date(strptime(start)) <= ApiDate(rec) /\ ApiDate(rec) <= date(strptime(end))),
      upstream }

\* Variant: the query starts at the watermark's own day.
query_update_start_exact(x) == x[1]

\* update_user_data, line 78: one day before the watermark, as a string.
query_update_start(x) == strftime(strptime(x[1]) - timedelta(1))

\* update_user_data, lines 78 to 84: the query and the projection, which
\* raises KeyError on a frame without columns (an empty answer).
update_user_data_download(r) ==
    /\ pc[r]["user"] = "download"
    /\ LET start == query_update_start(xcom[r])
           today == xcom[r][3]
       IN  \E response \in Responses(start, today) :
             /\ http' = Request(r, "user", <<start, today>>, response)
             /\ IF response = <<>>
                THEN Raise(r, "user", "KeyError") /\ UNCHANGED df
                ELSE /\ df' = [df EXCEPT ![r]["user"] = response]
                     /\ pc' = [pc EXCEPT ![r]["user"] = "cleanse"]
                     /\ UNCHANGED err
    /\ UNCHANGED <<clock, ticks, upstream, table, txn, locks, xcom, gate>>

\* requests.get raises: the download fails and so does the task.
download_data_error(r, b) ==
    /\ pc[r][b] = "download"
    /\ http' = Request(r, b, <<>>, <<>>)
    /\ Raise(r, b, "FetchError")
    /\ UNCHANGED <<clock, ticks, upstream, table, txn, locks, xcom, gate, df>>

\* Variant: line 87 keeping the watermark's own day.
InWindow_from_watermark(ts, x) ==
    date(ts) >= date(strptime(x[1])) /\ date(ts) < date(strptime(x[3]))

\* Variant: line 87 keeping today's rows.
InWindow_through_today(ts, x) ==
    date(ts) > date(strptime(x[1])) /\ date(ts) <= date(strptime(x[3]))

\* update_user_data, line 87: the rows kept, by their local date.
InWindow(ts, x) ==
    date(ts) > date(strptime(x[1])) /\ date(ts) < date(strptime(x[3]))

\* update_user_data, lines 86 to 91.
Cleansed(frame, x) ==
    LET stamped == [i \in DOMAIN frame |->
                      [frame[i] EXCEPT !.timestamp = to_timestamp(@)[2]]]
        kept == SelectSeq(stamped, LAMBDA row : InWindow(row.timestamp, x))
    IN  [i \in DOMAIN kept |-> [kept[i] EXCEPT !.dataset_id = extract_dataset(@)]]

update_user_data_cleanse(r) ==
    /\ pc[r]["user"] = "cleanse"
    /\ IF \E i \in DOMAIN df[r]["user"] :
            to_timestamp(df[r]["user"][i].timestamp)[1] = "ValueError"
       THEN Raise(r, "user", "ValueError") /\ UNCHANGED df
       ELSE /\ pc' = [pc EXCEPT ![r]["user"] = "recheck"]
            /\ df' = [df EXCEPT ![r]["user"] = Cleansed(@, xcom[r])]
            /\ UNCHANGED err
    /\ UNCHANGED <<clock, ticks, upstream, table, txn, locks, xcom, gate, http>>

\* Variant: the rows carry a date of their own, a day before the fetch.
with_timestamp_upstream(response, now) ==
    [i \in DOMAIN response |->
        [dataset_id |-> response[i], timestamp |-> now - timedelta(1)]]

\* update_datasets_data, line 111: df['timestamp'] = datetime.now()
with_timestamp(response, now) ==
    [i \in DOMAIN response |-> [dataset_id |-> response[i], timestamp |-> now]]

\* update_datasets_data, lines 110 to 114: the full snapshot, every row
\* stamped with datetime.now().
update_datasets_data_download(r) ==
    /\ pc[r]["datasets"] = "download"
    /\ \E response \in {Catalogue, <<>>} :
         /\ http' = Request(r, "datasets", <<>>, response)
         /\ IF response = <<>>
           THEN Raise(r, "datasets", "KeyError") /\ UNCHANGED df
           ELSE /\ df' = [df EXCEPT ![r]["datasets"] = with_timestamp(response, clock)]
                /\ pc' = [pc EXCEPT ![r]["datasets"] = "recheck"]
                /\ UNCHANGED err
    /\ UNCHANGED <<clock, ticks, upstream, table, txn, locks, xcom, gate>>

\* Variant: the load goes ahead whatever the watermark read again says.
StillDue_always(b, latest) == TRUE

\* The threshold of the watermark re-read before the load: lines 96, 117.
StillDue(b, latest) ==
    IF b = "user" THEN date(latest) < date(clock - timedelta(1))
    ELSE date(latest) < date(clock)

\* Lines 95 to 99 and 116 to 120: the watermark is read again; the task goes
\* on to upload_data or prints that another job did the update and returns.
recheck(r, b) ==
    /\ pc[r][b] = "recheck"
    /\ CanLock(r, TableOf(b), "ACCESS SHARE")
    /\ LET row == fetchone(TableOf(b)) IN
         IF row = <<>>
         THEN Raise(r, b, "TypeError")
         ELSE /\ pc' = [pc EXCEPT ![r][b] = IF StillDue(b, row[1]) THEN "lock" ELSE "Skipped"]
              /\ UNCHANGED err
    /\ UNCHANGED <<clock, ticks, upstream, table, txn, locks, xcom, gate, df, http>>

\* upload_data, line 143: LOCK TABLE waits until no conflicting lock is held.
upload_data_lock(r, b) ==
    /\ pc[r][b] = "lock"
    /\ CanLock(r, TableOf(b), LoadLockMode)
    /\ locks' = locks \cup {[run |-> r, table |-> TableOf(b), mode |-> LoadLockMode]}
    /\ pc' = [pc EXCEPT ![r][b] = "insert"]
    /\ UNCHANGED <<clock, ticks, upstream, table, txn, xcom, gate, df, err, http>>

\* The row as stored by the transaction of run r.
Stored(row, r) ==
    [f \in DOMAIN row \cup {"xmin"} |-> IF f = "xmin" THEN r ELSE row[f]]

\* upload_data, line 149: execute_batch sends one INSERT per row; each takes
\* ROW EXCLUSIVE on the table and adds the row to the open transaction.
upload_data_insert(r, b) ==
    /\ pc[r][b] = "insert"
    /\ Len(txn[r][b]) < Len(df[r][b])
    /\ CanLock(r, TableOf(b), "ROW EXCLUSIVE")
    /\ locks' = locks \cup {[run |-> r, table |-> TableOf(b), mode |-> "ROW EXCLUSIVE"]}
    /\ LET row == Stored(df[r][b][Len(txn[r][b]) + 1], r) IN
         IF autocommit
         THEN /\ table' = [table EXCEPT ![TableOf(b)] = query(@, <<row>>)]
              /\ txn' = [txn EXCEPT ![r][b] = Append(@, row)]
         ELSE /\ txn' = [txn EXCEPT ![r][b] = Append(@, row)]
              /\ UNCHANGED table
    /\ UNCHANGED <<clock, ticks, upstream, pc, xcom, gate, df, err, http>>

\* upload_data, line 150: conn.commit() makes the rows visible and ends the
\* transaction.
upload_data_commit(r, b) ==
    /\ pc[r][b] = "insert"
    /\ Len(txn[r][b]) = Len(df[r][b])
    /\ table' = [table EXCEPT ![TableOf(b)] =
                   IF autocommit THEN @ ELSE query(@, txn[r][b])]
    /\ txn' = [txn EXCEPT ![r][b] = <<>>]
    /\ locks' = Release(r, TableOf(b))
    /\ pc' = [pc EXCEPT ![r][b] = "Done"]
    /\ UNCHANGED <<clock, ticks, upstream, xcom, gate, df, err, http>>

\* upload_data, lines 141 to 150: an INSERT or the commit raises; the
\* connection's context manager rolls the transaction back and the
\* exception ends the task.
upload_data_error(r, b) ==
    /\ pc[r][b] = "insert"
    /\ txn' = [txn EXCEPT ![r][b] = <<>>]
    /\ locks' = Release(r, TableOf(b))
    /\ Raise(r, b, "LoadError")
    /\ UNCHANGED <<clock, ticks, upstream, table, xcom, gate, df, http>>

\* ------------------------------------------------------------------- runs
RunStep(r) ==
    \/ Trigger(r)
    \/ get_update_dates_user(r)
    \/ get_update_dates_datasets(r)
    \/ get_update_dates_today(r)
    \/ update_user_data_download(r)
    \/ update_user_data_cleanse(r)
    \/ update_datasets_data_download(r)
    \/ \E b \in Branches :
         \/ is_up_to_date_task(r, b)
         \/ download_data_error(r, b)
         \/ recheck(r, b)
         \/ upload_data_lock(r, b)
         \/ upload_data_insert(r, b)
         \/ upload_data_commit(r, b)
         \/ upload_data_error(r, b)

Next == Tick \/ \E r \in Runs : RunStep(r)

Spec == Init /\ [][Next]_vars

\* Runs that do not overlap: a run takes a step only while every other run
\* is still untriggered or has ended all its tasks.
Ended(q) ==
    \A k \in Tasks : pc[q][k] \in {"success", "Done", "Skipped", "Failed", "upstream_failed"}

Quiet(q) == pc[q]["dates"] = "idle" \/ Ended(q)

Alone(r) == \A q \in Runs \ {r} : Quiet(q)

NextSeq ==
    \/ Tick
    \/ \E r \in Runs :
         \/ Alone(r) /\ Trigger(r)
         \/ Alone(r) /\ get_update_dates_user(r)
         \/ Alone(r) /\ get_update_dates_datasets(r)
         \/ Alone(r) /\ get_update_dates_today(r)
         \/ Alone(r) /\ update_user_data_download(r)
         \/ Alone(r) /\ update_user_data_cleanse(r)
         \/ Alone(r) /\ update_datasets_data_download(r)
         \/ \E b \in Branches :
              \/ Alone(r) /\ is_up_to_date_task(r, b)
              \/ Alone(r) /\ download_data_error(r, b)
              \/ Alone(r) /\ recheck(r, b)
              \/ Alone(r) /\ upload_data_lock(r, b)
              \/ Alone(r) /\ upload_data_insert(r, b)
              \/ Alone(r) /\ upload_data_commit(r, b)
              \/ Alone(r) /\ upload_data_error(r, b)

SpecSeq == Init /\ [][NextSeq]_vars

\* The runs when nothing outside the program fails: no request raises and
\* no INSERT or commit raises, and the feed has no timestamp of a third
\* format. The scheduler runs every task that can run and PostgreSQL grants
\* a lock that stays grantable, so each task of each run is weakly fair.
DatesStep(r) ==
    \/ Trigger(r)
    \/ get_update_dates_user(r)
    \/ get_update_dates_datasets(r)
    \/ get_update_dates_today(r)

BranchStep(r, b) ==
    \/ is_up_to_date_task(r, b)
    \/ b = "user" /\ update_user_data_download(r)
    \/ b = "user" /\ update_user_data_cleanse(r)
    \/ b = "datasets" /\ update_datasets_data_download(r)
    \/ recheck(r, b)
    \/ upload_data_lock(r, b)
    \/ upload_data_insert(r, b)
    \/ upload_data_commit(r, b)

NextFair ==
    \/ Tick
    \/ \E r \in Runs :
         \/ DatesStep(r)
         \/ \E b \in Branches : BranchStep(r, b)

InitFair == Init /\ upstream # FeedBad

\* Every step of a task moves its position or adds a row to its transaction.
progress == <<pc, txn>>

SpecFair ==
    /\ InitFair
    /\ [][NextFair]_vars
    /\ \A r \in Runs :
         /\ WF_progress(DatesStep(r))
         /\ \A b \in Branches : WF_progress(BranchStep(r, b))

\* The freshness gate alone, over every watermark date and every today of
\* the calendar (the two tables' watermarks one or two days apart): the runs go as far
\* as their two ShortCircuit tasks.
InitGates ==
    /\ \E d \in 0..(MaxDay - MaxTicks) : clock = At(d, 5)
    /\ upstream = FeedScenario
    /\ \E u \in 0..MaxDay, d \in 0..MaxDay :
         /\ d \in {u - 1, u + 2}
         /\ table = [t \in Tables |-> IF t = TableOf("user") THEN <<OldUserRow(u, 23)>>
                                      ELSE <<OldDatasetRow(d, 0)>>]
    /\ NoRuns

NextGates ==
    \/ Tick
    \/ \E r \in Runs :
         \/ Trigger(r)
         \/ get_update_dates_user(r)
         \/ get_update_dates_datasets(r)
         \/ get_update_dates_today(r)
         \/ \E b \in Branches : is_up_to_date_task(r, b)

SpecGates == InitGates /\ [][NextGates]_vars

\* The two row functions of the cleansing on their own, lines 86 and 88,
\* over a frame of two records: timestamp strings of either format (or of
\* neither) around a midnight with offsets -01:00 .. +02:00, and a
\* dataset_id cell of any Python kind.
Stamps ==
    { Stamp(d[1], d[2], f[1], f[2], off) :
        d \in {<<4, 22>>, <<4, 23>>, <<5, 0>>, <<5, 1>>},
        f \in {<<"frac", 7>>, <<"plain", 0>>, <<"bad", 0>>},
        off \in -1..2 }

PyStr(chars) == [kind |-> "str", chars |-> chars]

PyValues ==
    { PyNone,
      [kind |-> "int", value |-> 5],
      PyStr(<<>>),
      PyStr(<<"a", "b">>),
      [kind |-> "dict", map |-> [k \in {} |-> PyNone]],
      [kind |-> "dict", map |-> [k \in {0} |-> PyStr(<<"a">>)]],
      [kind |-> "list", items |-> <<>>],
      OneId("a"),
      [kind |-> "list", items |-> <<PyStr(<<"a">>), PyStr(<<"b">>)>>] }

InitRows ==
    /\ clock = InitClock
    /\ \E s1 \in Stamps, s2 \in Stamps, v \in PyValues :
         upstream = << [id |-> 1, timestamp |-> s1, dataset_id |-> v],
                       [id |-> 2, timestamp |-> s2, dataset_id |-> OneId("a")] >>
    /\ table = [t \in Tables |-> <<>>]
    /\ ticks = 0
    /\ txn = [r \in Runs |-> [b \in Branches |-> <<>>]]
    /\ locks = {}
    /\ pc = [r \in Runs |-> [k \in Tasks |->
               IF k = "dates" THEN (IF r = 1 THEN "success" ELSE "idle")
               ELSE IF r = 1 /\ k = "user" THEN "to_timestamp" ELSE "none"]]
    /\ xcom = [r \in Runs |-> <<>>]
    /\ gate = [r \in Runs |-> [b \in Branches |-> "None"]]
    /\ df = [r \in Runs |-> [b \in Branches |->
               IF r = 1 /\ b = "user" THEN upstream ELSE <<>>]]
    /\ err = [r \in Runs |-> [k \in Tasks |-> ""]]
    /\ http = {}

\* Line 86: df['timestamp'] = df['timestamp'].apply(to_timestamp)
apply_to_timestamp(r) ==
    /\ pc[r]["user"] = "to_timestamp"
    /\ IF \E i \in DOMAIN df[r]["user"] :
            to_timestamp(df[r]["user"][i].timestamp)[1] = "ValueError"
       THEN Raise(r, "user", "ValueError") /\ UNCHANGED df
       ELSE /\ pc' = [pc EXCEPT ![r]["user"] = "extract_dataset"]
            /\ df' = [df EXCEPT ![r]["user"] =
                        [i \in DOMAIN @ |-> [@[i] EXCEPT !.timestamp = to_timestamp(@)[2]]]]
            /\ UNCHANGED err
    /\ UNCHANGED <<clock, ticks, upstream, table, txn, locks, xcom, gate, http>>

\* Line 88: df['dataset_id'] = df['dataset_id'].apply(extract_dataset)
apply_extract_dataset(r) ==
    /\ pc[r]["user"] = "extract_dataset"
    /\ pc' = [pc EXCEPT ![r]["user"] = "astype"]
    /\ df' = [df EXCEPT ![r]["user"] =
                [i \in DOMAIN @ |-> [@[i] EXCEPT !.dataset_id = extract_dataset(@)]]]
    /\ UNCHANGED <<clock, ticks, upstream, table, txn, locks, xcom, gate, err, http>>

NextRows == apply_to_timestamp(1) \/ apply_extract_dataset(1)

SpecRows == InitRows /\ [][NextRows]_vars

\* ----------------------------------------------------------------- claims
\* The day ordinal a '%Y-%m-%d' string names.
Ordinal(s) == CHOOSE d \in DOMAIN Calendar : Calendar[d] = s

\* get_update_dates of run r has returned its triple.
Returned(r) == Len(xcom[r]) = 3

\* The committed rows of a branch's table that run r inserted.
RowsBy(r, b) == SelectSeq(table[TableOf(b)], LAMBDA row : row.xmin = r)

\* Run r holds no lock on, and has no open transaction for, branch b's table.
Untouched(r, b) ==
    /\ RowsBy(r, b) = <<>>
    /\ txn[r][b] = <<>>
    /\ \A l \in locks : ~(l.run = r /\ l.table = TableOf(b))

\* The answer the API gave to run r's user-actions request.
ResponseOf(r) == (CHOOSE h \in http : h.run = r /\ h.branch = "user").response

C2_ExactlyOneCommits ==
    \A r1, r2 \in Runs : \A b \in Branches :
        (/\ r1 # r2
         /\ Returned(r1) /\ Returned(r2)
         /\ xcom[r1][IF b = "user" THEN 1 ELSE 2] = xcom[r2][IF b = "user" THEN 1 ELSE 2])
        => ~(RowsBy(r1, b) # <<>> /\ RowsBy(r2, b) # <<>>)

\* C3: every row update_user_data hands to the loader, has in its open
\* transaction or has committed lies on a local date d with W < d < T, for
\* the W and T get_update_dates returned to that run.
C3_LoadedRowsInsideWindow ==
    \A r \in Runs : Returned(r) =>
        LET W == Ordinal(xcom[r][1])
            T == Ordinal(xcom[r][3])
            Inside(row) == W < row.timestamp \div HoursPerDay
                           /\ row.timestamp \div HoursPerDay < T
        IN  /\ pc[r]["user"] \in {"lock", "insert", "Done"} =>
                 \A i \in DOMAIN df[r]["user"] : Inside(df[r]["user"][i])
            /\ \A i \in DOMAIN txn[r]["user"] : Inside(txn[r]["user"][i])
            /\ \A i \in DOMAIN RowsBy(r, "user") : Inside(RowsBy(r, "user")[i])

\* A run has committed rows, fewer than the API answered with.
C3_Witness ==
    \E r \in Runs :
        /\ RowsBy(r, "user") # <<>>
        /\ Len(RowsBy(r, "user")) < Len(ResponseOf(r))

\* C4: a branch whose gate returned false ends skipped and without error,
\* having issued no request, taken no lock and inserted no row.
C4_SkippedBranchHasNoEffect ==
    \A r \in Runs : \A b \in Branches :
        gate[r][b] = "False" =>
            /\ pc[r][b] = "Skipped"
            /\ err[r][b] = ""
            /\ df[r][b] = <<>>
            /\ \A h \in http : ~(h.run = r /\ h.branch = b)
            /\ Untouched(r, b)

\* A run both of whose gates returned false, while another run loaded.
C4_Witness ==
    \E r, q \in Runs :
        /\ gate[r]["user"] = "False" /\ gate[r]["datasets"] = "False"
        /\ RowsBy(q, "datasets") # <<>>

\* C5: a table holds all rows of a run's batch or none of them; a failed
\* insert leaves the run with no row in the table and the task in error,
\* and while a load is open the table changes only by that load's commit.
C5_AllOrNone ==
    \A r \in Runs : \A b \in Branches :
        /\ \/ RowsBy(r, b) = <<>>
           \/ /\ pc[r][b] = "Done"
              /\ RowsBy(r, b) = [i \in DOMAIN df[r][b] |-> Stored(df[r][b][i], r)]
        /\ err[r][b] = "LoadError" =>
              pc[r][b] = "Failed" /\ Untouched(r, b)

C5_OnlyCommitChanges ==
    \A r \in Runs : \A b \in Branches :
        (pc[r][b] = "insert" /\ pc'[r][b] # "Done") =>
            table'[TableOf(b)] = table[TableOf(b)]

\* C5 as one formula: the load of a batch is all-or-nothing in every state,
\* and nothing but the load's own commit changes the table while it is open.
C5_AllOrNothing == []C5_AllOrNone /\ [][C5_OnlyCommitChanges]_vars

\* One run's load failed after the other's batch was committed in full.
C5_Witness ==
    \E r, q \in Runs :
        /\ err[r]["user"] = "LoadError" /\ Len(df[r]["user"]) > 1
        /\ pc[q]["user"] = "Done" /\ Len(RowsBy(q, "user")) > 1

\* C6: a run does not crash on a table without rows.
C6_NoCrashOnEmptyTable ==
    \A r \in Runs : (\E t \in Tables : table[t] = <<>>) => pc[r]["dates"] # "Failed"

\* C7: when the API's answer holds a record whose timestamp matches neither
\* format, the user-actions task fails and no row of that answer is
\* inserted.
C7_BadTimestampFailsTheStep ==
    \A h \in http :
        (/\ h.branch = "user"
         /\ \E i \in DOMAIN h.response :
               h.response[i].timestamp.form \notin {"frac", "plain"})
        => /\ pc[h.run]["user"] \in {"cleanse", "Failed"}
           /\ pc[h.run]["user"] = "Failed" => err[h.run]["user"] = "ValueError"
           /\ Untouched(h.run, "user")

\* A task failed on a bad timestamp though its answer held a valid record
\* inside the window.
C7_Witness ==
    \E r \in Runs :
        /\ err[r]["user"] = "ValueError"
        /\ \E i \in DOMAIN ResponseOf(r) :
              /\ ResponseOf(r)[i].timestamp.form = "plain"
              /\ InWindow(to_timestamp(ResponseOf(r)[i].timestamp)[2], xcom[r])

\* The newest stored date of branch b's table is below the branch's
\* freshness threshold at the present clock.
BelowThreshold(b) ==
    LET W == fetchone(TableOf(b))[1] \div HoursPerDay
        now == clock \div HoursPerDay
    IN  IF b = "user" THEN W < now - 1 ELSE W < now

\* C8: an update task whose watermark re-read is not below the threshold
\* returns without error, lock or insert, in both branches; a branch that
\* ended so has no row in its table.
C8_RecheckStep ==
    \A r \in Runs : \A b \in Branches :
        (/\ pc[r][b] = "recheck" /\ pc'[r][b] # "recheck"
         /\ table[TableOf(b)] # <<>>
         /\ ~BelowThreshold(b))
        => /\ pc'[r][b] = "Skipped"
           /\ err'[r][b] = ""
           /\ table' = table /\ locks' = locks /\ txn' = txn

C8_RaceSkipped ==
    \A r \in Runs : \A b \in Branches :
        (gate[r][b] = "True" /\ pc[r][b] = "Skipped") =>
            err[r][b] = "" /\ Untouched(r, b)

\* C8 as one formula: the re-read that finds the watermark advanced ends the
\* task successfully with no lock and no insert, in both branches.
C8_LoadRaceIsBenign == []C8_RaceSkipped /\ [][C8_RecheckStep]_vars

\* A run that passed both gates and then found both tables updated by the
\* other run.
C8_Witness ==
    \E r, q \in Runs :
        /\ gate[r]["user"] = "True" /\ pc[r]["user"] = "Skipped"
        /\ gate[r]["datasets"] = "True" /\ pc[r]["datasets"] = "Skipped"
        /\ RowsBy(q, "user") # <<>> /\ RowsBy(q, "datasets") # <<>>

\* The ids of the records of an API answer that lie on a local date d with
\* W < d < T, in the answer's order.
IdsOf(rows) == [i \in DOMAIN rows |-> rows[i].id]

Expected(r) ==
    LET W == Ordinal(xcom[r][1])
        T == Ordinal(xcom[r][3])
        d(rec) == to_timestamp(rec.timestamp)[2] \div HoursPerDay
    IN  IdsOf(SelectSeq(ResponseOf(r), LAMBDA rec : W < d(rec) /\ d(rec) < T))

\* C9: a run overlapping no other whose user gate fired is not skipped at
\* the re-read; until its task is done it has no row in the table, and once
\* it is done the rows it committed are exactly the fetched records with
\* W < d < T: they all appear in the one commit step.
C9_ExactWindowCommitted ==
    \A r \in Runs :
        /\ gate[r]["user"] = "True" => pc[r]["user"] # "Skipped"
        /\ pc[r]["user"] = "Done" => IdsOf(RowsBy(r, "user")) = Expected(r)
        /\ pc[r]["user"] # "Done" => RowsBy(r, "user") = <<>>

\* The documented scenario: watermark 2024-01-01, today 2024-01-05, records
\* dated 2023-12-31 .. 2024-01-05 fetched, those of 01-02, 01-03 and 01-04
\* committed.
C9_Witness ==
    \E r \in Runs :
        /\ pc[r]["user"] = "Done"
        /\ xcom[r][1] = <<2024, 1, 1>> /\ xcom[r][3] = <<2024, 1, 5>>
        /\ ResponseOf(r) = FeedScenario
        /\ IdsOf(RowsBy(r, "user")) = <<3, 4, 5>>
        /\ {strftime(RowsBy(r, "user")[i].timestamp) : i \in 1..3}
              = {<<2024, 1, 2>>, <<2024, 1, 3>>, <<2024, 1, 4>>}

\* C10: no two runs hold a lock on the same table or are inside the insert
\* of the same table at once, and a watermark read is enabled whatever
\* locks are held.
C10_WriteExclusiveReadShared ==
    /\ \A l1, l2 \in locks : l1.table = l2.table => l1.run = l2.run
    /\ \A r1, r2 \in Runs : \A b \in Branches :
          (pc[r1][b] = "insert" /\ pc[r2][b] = "insert") => r1 = r2
    /\ \A r \in Runs :
          /\ pc[r]["dates"] = "latest_user_date" => ENABLED get_update_dates_user(r)
          /\ pc[r]["dates"] = "latest_datasets_date" => ENABLED get_update_dates_datasets(r)
          /\ \A b \in Branches : pc[r][b] = "recheck" => ENABLED recheck(r, b)

\* One run holds both tables' locks with rows inserted, while the other
\* waits for one lock and is about to read the other table's watermark.
C10_Witness ==
    \E r, q \in Runs :
        /\ r # q
        /\ pc[r]["user"] = "insert" /\ txn[r]["user"] # <<>>
        /\ pc[r]["datasets"] = "insert" /\ txn[r]["datasets"] # <<>>
        /\ pc[q]["user"] = "lock"
        /\ pc[q]["datasets"] = "recheck"

\* The positions a branch's task may move between in one step: gate, fetch,
\* normalisation, watermark re-read, lock, insert and commit, in that order,
\* each of which may also end the branch (skipped or failed).
C11_Successors ==
    { <<"none", "gate">>, <<"none", "upstream_failed">>,
      <<"gate", "download">>, <<"gate", "Skipped">>,
      <<"download", "cleanse">>, <<"download", "recheck">>, <<"download", "Failed">>,
      <<"cleanse", "recheck">>, <<"cleanse", "Failed">>,
      <<"recheck", "lock">>, <<"recheck", "Skipped">>, <<"recheck", "Failed">>,
      <<"lock", "insert">>,
      <<"insert", "Done">>, <<"insert", "Failed">> }

C11_OrderStep ==
    \A r \in Runs : \A b \in Branches :
        /\ pc'[r][b] # pc[r][b] => <<pc[r][b], pc'[r][b]>> \in C11_Successors
        /\ (pc[r][b] = "none" /\ pc'[r][b] = "gate") => Len(xcom'[r]) = 3
        /\ (pc[r][b] = "download" /\ pc'[r][b] = "cleanse") => b = "user"
        /\ (pc[r][b] = "download" /\ pc'[r][b] = "recheck") => b = "datasets"
        /\ (pc[r][b] = "recheck" /\ pc'[r][b] = "lock") =>
              /\ BelowThreshold(b)
              /\ \A l \in locks' : ~(l.run = r /\ l.table = TableOf(b))
        /\ (\E l \in locks' \ locks : l.run = r /\ l.table = TableOf(b)) =>
              pc[r][b] \in {"lock", "insert"}
        /\ txn'[r][b] # txn[r][b] => pc[r][b] = "insert"

C11_LoadHasHistory ==
    \A r \in Runs : \A b \in Branches :
        /\ pc[r][b] \in {"lock", "insert", "Done"} =>
              /\ Returned(r) /\ pc[r]["dates"] = "success"
              /\ gate[r][b] = "True"
              /\ \E h \in http : h.run = r /\ h.branch = b /\ h.response # <<>>
        /\ (b = "user" /\ pc[r][b] \in {"recheck", "lock", "insert", "Done"}) =>
              df[r][b] = Cleansed(ResponseOf(r), xcom[r])
        /\ (txn[r][b] # <<>> \/ RowsBy(r, b) # <<>>) =>
              pc[r][b] \in {"insert", "Done"}

\* C11: within a run the steps of a branch follow one another only in the
\* order watermarks, gate, fetch, normalisation, re-read, load; a load is
\* under way or done only in a run whose gate returned true, whose fetch
\* was answered and normalised, and whose re-read passed before the lock.
C11_StepsInOrder == []C11_LoadHasHistory /\ [][C11_OrderStep]_vars

\* A run has loaded both tables, the user table with fewer rows than it
\* fetched, while the other run was turned away at a re-read.
C11_Witness ==
    \E r, q \in Runs :
        /\ pc[r]["user"] = "Done" /\ pc[r]["datasets"] = "Done"
        /\ RowsBy(r, "datasets") # <<>>
        /\ Len(RowsBy(r, "user")) \in 1..(Len(ResponseOf(r)) - 1)
        /\ gate[q]["user"] = "True" /\ pc[q]["user"] = "Skipped"

\* C12: with no fetch, parse or load error and every task weakly fair, each
\* branch of each started run eventually is Done or Skipped.  No step
\* leaves a branch that is Failed or upstream_failed, so the claim needs
\* that no branch ever gets there.
C12_NoBranchEndsOtherwise ==
    \A r \in Runs : \A b \in Branches :
        pc[r][b] \notin {"Failed", "upstream_failed"}

\* The same as a liveness property.
C12_EveryBranchEnds ==
    \A r \in Runs : \A b \in Branches :
        (pc[r]["dates"] # "idle") ~> (pc[r][b] \in {"Done", "Skipped"})

\* The same for the runs that read no empty table and get no empty answer.
C12_NoCrash ==
    \A r \in Runs : \A k \in Tasks : err[r][k] \notin {"TypeError", "KeyError"}

C12_EndsUnlessCrash ==
    \A r \in Runs : \A b \in Branches :
        (pc[r]["dates"] # "idle") ~> (pc[r][b] \in {"Done", "Skipped"} \/ ~C12_NoCrash)

\* A lock once held is released: its task ends the transaction.
C12_LocksAreReleased ==
    \A r \in Runs : \A t \in Tables :
        (\E l \in locks : l.run = r /\ l.table = t)
            ~> (\A l \in locks : ~(l.run = r /\ l.table = t))

\* The frame's timestamps have been converted.
Converted(r) == pc[r]["user"] \in {"extract_dataset", "astype"}

\* C13: two strings of the accepted formats, one with and one without
\* fractional seconds and with any offsets, that denote the same instant
\* convert to the same naive value, the Europe/Berlin wall-clock time of
\* that instant.
C13_SameInstantSameLocalValue ==
    Converted(1) =>
        \A i, j \in DOMAIN upstream :
            LET a == upstream[i].timestamp
                b == upstream[j].timestamp
            IN  (a.form = "frac" /\ b.form = "plain" /\ a.wall - a.off = b.wall - b.off)
                => /\ df[1]["user"][i].timestamp = df[1]["user"][j].timestamp
                   /\ df[1]["user"][i].timestamp = a.wall - a.off + CET

\* C14: extract_dataset gives the sole element of a one-element list and
\* None for an empty list and for every value that is not a list (None, a
\* number, a string, a mapping), and it does not raise.
C14_UnwrapsOrNone ==
    pc[1]["user"] = "astype" =>
        \A i \in DOMAIN upstream :
            LET v == upstream[i].dataset_id
                out == df[1]["user"][i].dataset_id
            IN  /\ err[1]["user"] = ""
                /\ (v.kind = "list" /\ Len(v.items) = 1) => out = v.items[1]
                /\ (v.kind # "list" \/ v.items = <<>>) => out.kind = "none"

\* Sequence a is an initial part of sequence b.
IsPrefix(a, b) == Len(a) <= Len(b) /\ \A i \in DOMAIN a : a[i] = b[i]

C15_GrowsOnly ==
    \A t \in Tables :
        /\ IsPrefix(table[t], table'[t])
        /\ table[t] # <<>> => fetchone(t)'[1] >= fetchone(t)[1]

C15_WatermarkIsNewest ==
    \A t \in Tables : \A i \in DOMAIN table[t] :
        table[t][i].timestamp <= fetchone(t)[1]

\* C15: in every step of every interleaving each table keeps the rows it
\* has, unchanged and in place, and only gains rows at its end; the
\* watermark get_latest_timestamp reads is the newest stored timestamp and
\* never decreases.
C15_AppendOnly == []C15_WatermarkIsNewest /\ [][C15_GrowsOnly]_vars

\* Two runs have committed to the user table, the later commit bringing
\* rows older than the watermark the earlier one left.
C15_Witness ==
    \E i, j \in DOMAIN table[TableOf("user")] :
        LET rows == table[TableOf("user")] IN
            /\ i < j
            /\ rows[i].xmin # 0 /\ rows[j].xmin # 0 /\ rows[i].xmin # rows[j].xmin
            /\ rows[j].timestamp < rows[i].timestamp

\* The other branch.
Other(b) == IF b = "user" THEN "datasets" ELSE "user"

\* The step is one of the gate or the update task of run r's branch b.
C16_StepOf(r, b) ==
    /\ pc[r][b] \in {"gate", "download", "cleanse", "recheck", "lock", "insert"}
    /\ pc'[r][b] # pc[r][b] \/ txn'[r][b] # txn[r][b]

\* What such a step leaves alone: the other branch's table, its locks and
\* every run's task, frame and transaction of the other branch.
C16_Frame ==
    \A r \in Runs : \A b \in Branches :
        C16_StepOf(r, b) =>
            LET o == Other(b) IN
                /\ table'[TableOf(o)] = table[TableOf(o)]
                /\ {l \in locks' : l.table = TableOf(o)} = {l \in locks : l.table = TableOf(o)}
                /\ \A q \in Runs :
                      /\ pc'[q][o] = pc[q][o] /\ gate'[q][o] = gate[q][o]
                      /\ txn'[q][o] = txn[q][o] /\ err'[q][o] = err[q][o]
                      /\ df'[q][o] = df[q][o]

\* What decides such a step: the branch's own watermark entry and today of
\* the XCom triple at the gate, the branch's own table and the clock at the
\* re-read.
C16_OwnInputsDecide ==
    \A r \in Runs : \A b \in Branches :
        LET W == Ordinal(xcom[r][IF b = "user" THEN 1 ELSE 2])
            T == Ordinal(xcom[r][3])
        IN  /\ (pc[r][b] = "gate" /\ pc'[r][b] # "gate") =>
                  (pc'[r][b] = "download" <=> W < (IF b = "user" THEN T - 1 ELSE T))
            /\ (pc[r][b] = "recheck" /\ pc'[r][b] # "recheck") =>
                  pc'[r][b] = IF table[TableOf(b)] = <<>> THEN "Failed"
                              ELSE IF BelowThreshold(b) THEN "lock" ELSE "Skipped"

\* A task waits for its lock exactly while another run holds a lock on the
\* same table.
C16_OwnTableBlocks ==
    \A r \in Runs : \A b \in Branches :
        pc[r][b] = "lock" =>
            (ENABLED upload_data_lock(r, b)
                <=> \A l \in locks : l.table = TableOf(b) => l.run = r)

\* C16: every step of the gate and update task of one branch leaves the
\* other branch's table, locks and tasks unchanged, and what the step does
\* is decided by the branch's own watermark, table and today alone.
C16_BranchesIndependent ==
    /\ []C16_OwnTableBlocks
    /\ [][C16_Frame /\ C16_OwnInputsDecide]_vars

\* Both tables have been loaded, by different runs, and each run's two
\* branches ended differently.
C16_Witness ==
    \E r, q \in Runs :
        /\ pc[r]["user"] = "Done" /\ pc[r]["datasets"] = "Skipped"
        /\ gate[r]["datasets"] = "True"
        /\ pc[q]["user"] = "Failed" /\ pc[q]["datasets"] = "Done"
        /\ RowsBy(r, "user") # <<>> /\ RowsBy(q, "datasets") # <<>>

\* C17: the user-actions request names the inclusive range from the day
\* before the run's watermark date W to its today T; every day d with
\* W < d < T lies in that range, and so does the local date of every row
\* the cleansing keeps.
C17_QueryCoversWindow ==
    \A h \in http :
        (h.branch = "user" /\ h.params # <<>>) =>
            LET r == h.run
                W == Ordinal(xcom[r][1])
                T == Ordinal(xcom[r][3])
                lo == Ordinal(h.params[1])
                hi == Ordinal(h.params[2])
            IN  /\ lo = W - 1 /\ hi = T
                /\ \A d \in DOMAIN Calendar : (W < d /\ d < T) => (lo <= d /\ d <= hi)
                /\ pc[r]["user"] \in {"recheck", "lock", "insert", "Done"} =>
                      \A i \in DOMAIN df[r]["user"] :
                          /\ lo <= date(df[r]["user"][i].timestamp)
                          /\ date(df[r]["user"][i].timestamp) <= hi

\* The documented request: watermark 2024-01-01, today 2024-01-05, range
\* 2023-12-31 .. 2024-01-05 asked for, answered with records of both ends
\* of the range, the rows of the days in between committed.
C17_Witness ==
    \E h \in http :
        /\ h.branch = "user"
        /\ h.params = <<<<2023, 12, 31>>, <<2024, 1, 5>>>>
        /\ xcom[h.run][1] = <<2024, 1, 1>>
        /\ {ApiDate(h.response[i]) : i \in DOMAIN h.response} = 2..7
        /\ pc[h.run]["user"] = "Done"
        /\ {date(RowsBy(h.run, "user")[i].timestamp) :
               i \in DOMAIN RowsBy(h.run, "user")} = 4..6

C18_StampStep ==
    \A r \in Runs :
        (pc[r]["datasets"] = "download" /\ pc'[r]["datasets"] = "recheck") =>
            /\ df'[r]["datasets"] # <<>>
            /\ \A i \in DOMAIN df'[r]["datasets"] :
                  df'[r]["datasets"][i].timestamp = clock

C18_SameDayRunSkipped ==
    \A r \in Runs :
        (pc[r]["datasets"] = "Done" /\ RowsBy(r, "datasets") # <<>>) =>
            LET T == date(RowsBy(r, "datasets")[1].timestamp)
                W == fetchone(TableOf("datasets"))[1]
            IN  /\ \A i \in DOMAIN RowsBy(r, "datasets") :
                      date(RowsBy(r, "datasets")[i].timestamp) = T
                /\ date(W) >= T
                /\ ~is_datasets_data_up_to_date(<<strftime(W), strftime(W), Calendar[T]>>)
                /\ \A q \in Runs :
                      (q > r /\ Returned(q) /\ xcom[q][3] = Calendar[T]) =>
                          /\ gate[q]["datasets"] # "True"
                          /\ pc[q]["datasets"] \in {"gate", "Skipped"}
                          /\ df[q]["datasets"] = <<>>
                          /\ Untouched(q, "datasets")

\* C18: every row of a datasets batch carries the clock value of its
\* fetch; once a run has committed such a batch fetched on day T the
\* datasets watermark date is at least T, the datasets gate with today = T
\* returns false, and a later run with today = T that does not overlap it
\* is skipped at the gate and inserts nothing.
C18_FetchTimeStampStopsRerun == []C18_SameDayRunSkipped /\ [][C18_StampStep]_vars

\* A run committed the snapshot and the next run, on the same day, was
\* skipped at its datasets gate.
C18_Witness ==
    \E r, q \in Runs :
        /\ q > r
        /\ pc[r]["datasets"] = "Done" /\ Len(RowsBy(r, "datasets")) = Len(Catalogue)
        /\ Returned(q)
        /\ xcom[q][3] = strftime(RowsBy(r, "datasets")[1].timestamp)
        /\ gate[q]["datasets"] = "False" /\ pc[q]["datasets"] = "Skipped"

\* C19: under overlapping runs and every interleaving of their reads,
\* re-reads, locks and commits, no record of the API is stored in
\* ogd_analytics.user_actions more than once.
C19_NoRecordStoredTwice ==
    LET rows == table[TableOf("user")] IN
        \A i, j \in DOMAIN rows :
            (i # j /\ rows[i].xmin # 0 /\ rows[j].xmin # 0) => rows[i].id # rows[j].id

\* Run r has ended all its tasks and none of them raised.
Clean(r) == Ended(r) /\ \A k \in Tasks : err[r][k] = ""

\* C20: when a run has ended without error and a later run that does not
\* overlap it has the same today, with the API's records unchanged, the
\* later run adds no row to either table: both tables keep the content
\* the first run left, whether or not that run brought the user-actions
\* watermark up to yesterday.
C20_RerunAddsNothing ==
    \A r, q \in Runs :
        (q > r /\ Clean(r) /\ Returned(q) /\ xcom[q][3] = xcom[r][3]) =>
            \A b \in Branches :
                /\ RowsBy(q, b) = <<>>
                /\ txn[q][b] = <<>>

\* The first run loaded user rows yet left the watermark two days behind
\* its today; the second run, on the same today, passed its gate and
\* re-read, and committed an empty batch.
C20_Witness ==
    \E r, q \in Runs :
        /\ q > r /\ Clean(r) /\ Clean(q)
        /\ xcom[q][3] = xcom[r][3]
        /\ RowsBy(r, "user") # <<>> /\ RowsBy(r, "datasets") # <<>>
        /\ Ordinal(xcom[q][1]) < Ordinal(xcom[q][3]) - 1
        /\ gate[q]["user"] = "True" /\ pc[q]["user"] = "Done"
        /\ pc[q]["datasets"] = "Skipped"

=============================================================================
